---- MODULE Spec2Model ----
(***************************************************************************)
(* Model of procesar_pdf_orden_servicio (src/app_os_demo.py): extraction   *)
(* of the scalar fields of a service order, the page-by-page scan for      *)
(* deliverable declarations, reconciliation, synthesis of placeholders,    *)
(* the two manual inputs and the derivation of the schedule rows.          *)
(*                                                                         *)
(* Text is modelled by what the regular expressions of the source find in  *)
(* it: a page is the sequence, in reading order, of the pattern matches it *)
(* contains (tokens).  A token carries the characters captured by the      *)
(* groups of its pattern, so that upper(), replace(), int(), float() and   *)
(* strptime() are computed on characters.  Amounts are in cents, percents  *)
(* in hundredths of a percent.                                             *)
(***************************************************************************)
EXTENDS Integers, Sequences, FiniteSets, TLC

VARIABLES pdf, pc, numero_os, fecha_os, monto_total, cantidad_entregables,
          entregables_detectados, vistos, primera_pagina_detectada, pagina,
          prompts, rows, pago_unitario

vars == <<pdf, pc, numero_os, fecha_os, monto_total, cantidad_entregables,
          entregables_detectados, vistos, primera_pagina_detectada, pagina,
          prompts, rows, pago_unitario>>

\* ---------------------------------------------------------------- bounds
\* Longest stream of items (tokens and page breaks) of an input document.
MaxItems == 4
\* Largest value typed into the manual deliverable-count input.
MaxManualCount == 3

\* ------------------------------------------------------- input documents
Tok(k, g1, g2) == [k |-> k, g1 |-> g1, g2 |-> g2]

\* Matches of the declaration pattern: g1 the ordinal word, g2 the digits.
DeclTokens ==
    { Tok("decl", <<"S","E","P","T","I","M","O">>, <<"3","0">>),
      Tok("decl", <<"s","é","p","t","i","m","o">>, <<"0","3","0">>),
      Tok("decl", <<"S","E","P","T","I","M","O">>, <<"6","0">>),
      Tok("decl", <<"P","r","i","m","e","r">>, <<"3","0">>) }

\* Matches of the scalar patterns: g1 the captured group.
ScalarTokens ==
    { Tok("os", <<"4","4","5">>, <<>>),
      Tok("fecha", <<"1","0","/","0","3","/","2","0","2","5">>, <<>>),
      Tok("fecha", <<"3","1","/","0","2","/","2","0","2","5">>, <<>>),
      Tok("monto_rotulado", <<"9",",","0","0","0",".","0","0">>, <<>>),
      Tok("monto_simple", <<"1","0",".","0","1">>, <<>>),
      Tok("cantidad", <<"1">>, <<>>),
      Tok("cantidad", <<"3">>, <<>>) }

\* Text that no pattern matches.
OtherText == Tok("texto", <<>>, <<>>)

\* End of a page in the stream of a document.
PageBreak == Tok("ff", <<>>, <<>>)

\* Two families of documents: declarations with declared counts, and the
\* scalar fields with one declaration.
ScanItems ==
    DeclTokens \cup {t \in ScalarTokens : t.k = "cantidad"} \cup {OtherText, PageBreak}

FieldItems ==
    {t \in ScalarTokens : t.g1 # <<"1">>}
       \cup {t \in DeclTokens : t.g1 = <<"P","r","i","m","e","r">>}
       \cup {OtherText, PageBreak}

StreamsOver(I) == UNION { [1..n -> I] : n \in 0..MaxItems }

Streams == StreamsOver(ScanItems) \cup StreamsOver(FieldItems)

\* pagina.extract_text() of a page without a text layer.
None == <<Tok("None", <<>>, <<>>)>>

\* The pages of a stream: the tokens between page breaks.  A page without
\* tokens has no text: extract_text() gives None for it at an odd page
\* number and "" at an even one.
RECURSIVE Split(_, _, _)
Split(s, cur, n) ==
    LET close == IF cur = <<>> /\ n % 2 = 1 THEN None ELSE cur
    IN  IF s = <<>> THEN <<close>>
        ELSE IF Head(s).k = "ff" THEN <<close>> \o Split(Tail(s), <<>>, n + 1)
        ELSE Split(Tail(s), Append(cur, Head(s)), n)

Documents == { Split(s, <<>>, 1) : s \in Streams }

\* ------------------------------------------------------ string functions
RECURSIVE Join(_)
\* The string made of a sequence of characters.
Join(cs) == IF cs = <<>> THEN "" ELSE Head(cs) \o Join(Tail(cs))

\* str.upper() on one character (the letters that occur in a match of the
\* ordinal alternation under re.IGNORECASE).
UpperChar(c) ==
    CASE c = "s" -> "S" [] c = "e" -> "E" [] c = "é" -> "É" [] c = "p" -> "P"
      [] c = "t" -> "T" [] c = "i" -> "I" [] c = "m" -> "M" [] c = "o" -> "O"
      [] c = "r" -> "R" [] OTHER -> c

Upper(cs) == [i \in 1..Len(cs) |-> UpperChar(cs[i])]

\* str.replace(old, new) for a one-character old.
Replace(cs, old, new) == [i \in 1..Len(cs) |-> IF cs[i] = old THEN new ELSE cs[i]]

DigitVal(c) ==
    CASE c = "0" -> 0 [] c = "1" -> 1 [] c = "2" -> 2 [] c = "3" -> 3
      [] c = "4" -> 4 [] c = "5" -> 5 [] c = "6" -> 6 [] c = "7" -> 7
      [] c = "8" -> 8 [] c = "9" -> 9

RECURSIVE ParseInt(_)
\* int() of a string of decimal digits.
ParseInt(cs) ==
    IF cs = <<>> THEN 0
    ELSE ParseInt(SubSeq(cs, 1, Len(cs) - 1)) * 10 + DigitVal(cs[Len(cs)])

\* float(raw.replace(",", "")) of a match of [\d,]+\.\d{2}, in cents.
ParseMonto(raw) ==
    LET cs == SelectSeq(raw, LAMBDA c : c # ",")
        n  == Len(cs)
    IN  ParseInt(SubSeq(cs, 1, n - 3)) * 100 + ParseInt(SubSeq(cs, n - 1, n))

\* ----------------------------------------------------------------- dates
IsLeap(y) == (y % 4 = 0 /\ y % 100 # 0) \/ y % 400 = 0

DaysInMonth(m, y) ==
    IF m = 2 THEN (IF IsLeap(y) THEN 29 ELSE 28)
    ELSE IF m \in {4, 6, 9, 11} THEN 30 ELSE 31

\* The fields strptime reads from a match of \d{2}/\d{2}/\d{4} with the
\* format %d/%m/%Y.
DateFields(cs) ==
    [d |-> ParseInt(SubSeq(cs, 1, 2)), m |-> ParseInt(SubSeq(cs, 4, 5)),
     y |-> ParseInt(SubSeq(cs, 7, 10))]

\* strptime raises ValueError unless the fields are a calendar date.
ValidDate(f) ==
    /\ f.y >= 1
    /\ f.m \in 1..12
    /\ f.d >= 1 /\ f.d <= DaysInMonth(f.m, f.y)

RECURSIVE AddDays(_, _)
\* date + timedelta(days=n), n >= 0.
AddDays(f, n) ==
    LET left == DaysInMonth(f.m, f.y) - f.d
    IN  IF n <= left THEN [f EXCEPT !.d = f.d + n]
        ELSE AddDays([d |-> 1,
                      m |-> IF f.m = 12 THEN 1 ELSE f.m + 1,
                      y |-> IF f.m = 12 THEN f.y + 1 ELSE f.y],
                     n - left - 1)

Pad(n, w) ==
    IF w = 2 THEN (IF n < 10 THEN "0" \o ToString(n) ELSE ToString(n))
    ELSE IF n < 10 THEN "000" \o ToString(n)
    ELSE IF n < 100 THEN "00" \o ToString(n)
    ELSE IF n < 1000 THEN "0" \o ToString(n) ELSE ToString(n)

\* strftime("%d/%m/%Y")
FormatDate(f) == Pad(f.d, 2) \o "/" \o Pad(f.m, 2) \o "/" \o Pad(f.y, 4)

\* --------------------------------------------------------------- numbers
\* Variant of Round2: the quotient is truncated.
Round2_Trunc(t, n) == {t \div n}

\* round(t / n, 2) with t in hundredths: the hundredths nearest to t / n.
\* On an exact tie the binary representation of the quotient decides which
\* neighbour Python returns; both are outcomes.
Round2(t, n) ==
    LET q == t \div n
        r == t % n
    IN  IF 2 * r < n THEN {q} ELSE IF 2 * r > n THEN {q + 1} ELSE {q, q + 1}

\* str() of a float with at most two decimals, given in hundredths.
FormatFloat(h) ==
    LET f == h % 100
    IN  ToString(h \div 100) \o "." \o
        (IF f % 10 = 0 THEN ToString(f \div 10) ELSE Pad(f, 2))

\* ------------------------------------------------------------ extraction
\* "if contenido:" / "if not texto_pag:" -- None and "" are both false.
Truthy(p) == p # None /\ p # <<>>

RECURSIVE Texto(_)
\* texto_pdf: the text of the pages that have text, in page order.
Texto(pages) ==
    IF pages = <<>> THEN <<>>
    ELSE (IF Truthy(Head(pages)) THEN Head(pages) ELSE <<>>) \o Texto(Tail(pages))

\* re.search: the position of the first match of one of the patterns, 0 for
\* no match.
Search(texto, kinds) ==
    LET I == {i \in 1..Len(texto) : texto[i].k \in kinds}
    IN  IF I = {} THEN 0 ELSE CHOOSE i \in I : \A j \in I : i <= j

\* re.findall of the declaration pattern: the (nombre, dias) groups of every
\* match of the page, in order.
FindAll(texto_pag) == SelectSeq(texto_pag, LAMBDA t : t.k = "decl")

\* Variant of PatronPag: the pattern is searched in the text of the whole
\* document instead of the text of the page.
PatronPag_WholeText(pages, i) == FindAll(Texto(pages))

\* Lines 59-70: the matches of one page; a page without text is skipped.
PatronPag(pages, i) == IF Truthy(pages[i]) THEN FindAll(pages[i]) ELSE <<>>

OsMatch(texto) == Search(texto, {"os"})
FechaMatch(texto) == Search(texto, {"fecha"})
MontoMatch(texto) ==
    IF Search(texto, {"monto_rotulado"}) # 0
    THEN Search(texto, {"monto_rotulado"})
    ELSE Search(texto, {"monto_simple"})
CantidadMatch(texto) == Search(texto, {"cantidad"})

NumeroOs(texto) ==
    IF OsMatch(texto) # 0 THEN Join(texto[OsMatch(texto)].g1) ELSE "No identificado"

FechaDefault == [d |-> 10, m |-> 1, y |-> 2025]

MontoTotal(texto) ==
    IF MontoMatch(texto) # 0 THEN ParseMonto(texto[MontoMatch(texto)].g1) ELSE 0

CantidadEntregables(texto) ==
    IF CantidadMatch(texto) # 0 THEN ParseInt(texto[CantidadMatch(texto)].g1) ELSE 0

\* nombre.upper().replace("É", "E").strip()
NombreNorm(nombre) == Join(Replace(Upper(nombre), "É", "E"))

Clave(t) == <<NombreNorm(t.g1), ParseInt(t.g2)>>

RECURSIVE Dedup_NoSeen(_, _, _)
\* Variant of Dedup: every match is appended, seen or not.
Dedup_NoSeen(matches, seen, lista) ==
    IF matches = <<>> THEN [vistos |-> seen, lista |-> lista]
    ELSE Dedup_NoSeen(Tail(matches), seen \cup {Clave(Head(matches))},
                      Append(lista, Clave(Head(matches))))

RECURSIVE Dedup(_, _, _)
\* The loop over patron_pag: a key not in vistos is added to vistos and
\* appended to the list.
Dedup(matches, seen, lista) ==
    IF matches = <<>> THEN [vistos |-> seen, lista |-> lista]
    ELSE LET clave == Clave(Head(matches))
         IN  IF clave \notin seen
             THEN Dedup(Tail(matches), seen \cup {clave}, Append(lista, clave))
             ELSE Dedup(Tail(matches), seen, lista)

\* Variant of Placeholders: one placeholder when no count was declared.
Placeholders_One(cantidad) ==
    [i \in 1..(IF cantidad = 0 THEN 1 ELSE cantidad) |->
        <<"ENTREGABLE_" \o ToString(i), i * 30>>]

\* The placeholders generated when nothing was detected.
Placeholders(cantidad) ==
    [i \in 1..(IF cantidad = 0 THEN 5 ELSE cantidad) |->
        <<"ENTREGABLE_" \o ToString(i), i * 30>>]

\* Values st.number_input(min_value=0.0) returns for the amount, in cents.
MontoInputs == {0, 1, 100000}

\* Variant of CantidadInputs: the count input accepts 0.
CantidadInputs_FromZero == 0..MaxManualCount

\* Values st.number_input(min_value=1, step=1) returns for the count.
CantidadInputs == 1..MaxManualCount

\* ----------------------------------------------------------------- state
Init ==
    /\ pdf \in Documents
    /\ pc = "extract"
    /\ numero_os = ""
    /\ fecha_os = FechaDefault
    /\ monto_total = 0
    /\ cantidad_entregables = 0
    /\ entregables_detectados = <<>>
    /\ vistos = {}
    /\ primera_pagina_detectada = FALSE
    /\ pagina = 0
    /\ prompts = {}
    /\ rows = <<>>
    /\ pago_unitario = 0

\* Lines 11-50: the four scalar fields from the text of the whole document.
\* strptime raises ValueError on a match that is no calendar date.
ExtractFields ==
    /\ pc = "extract"
    /\ LET texto == Texto(pdf)
           fm == FechaMatch(texto)
       IN  IF fm # 0 /\ ~ValidDate(DateFields(texto[fm].g1))
           THEN /\ pc' = "ValueError"
                /\ UNCHANGED <<numero_os, fecha_os, monto_total,
                               cantidad_entregables, pagina>>
           ELSE /\ pc' = "scan"
                /\ numero_os' = NumeroOs(texto)
                /\ fecha_os' = IF fm # 0 THEN DateFields(texto[fm].g1)
                               ELSE FechaDefault
                /\ monto_total' = MontoTotal(texto)
                /\ cantidad_entregables' = CantidadEntregables(texto)
                /\ pagina' = 1
    /\ UNCHANGED <<pdf, entregables_detectados, vistos,
                   primera_pagina_detectada, prompts, rows, pago_unitario>>

\* Lines 58-83: one iteration of the loop over the pages.  A page without
\* text or without a match is skipped; the first page with a match gives
\* its declarations and ends the loop.
ScanPage ==
    /\ pc = "scan"
    /\ LET patron_pag == PatronPag(pdf, pagina)
           res == Dedup(patron_pag, vistos, entregables_detectados)
       IN  IF patron_pag # <<>>
           THEN /\ vistos' = res.vistos
                /\ entregables_detectados' = res.lista
                /\ primera_pagina_detectada' = TRUE
                /\ pc' = "reconcile"
                /\ UNCHANGED pagina
           ELSE /\ UNCHANGED <<vistos, entregables_detectados,
                               primera_pagina_detectada>>
                /\ IF pagina < Len(pdf)
                   THEN pagina' = pagina + 1 /\ UNCHANGED pc
                   ELSE pc' = "reconcile" /\ UNCHANGED pagina
    /\ UNCHANGED <<pdf, numero_os, fecha_os, monto_total, cantidad_entregables,
                   prompts, rows, pago_unitario>>

\* Variant of ReconcileCount: the detected count always wins.
ReconcileCount_Detected(detectados, cantidad) == detectados

\* Lines 86-87: the detected count replaces a smaller declared count.
ReconcileCount(detectados, cantidad) ==
    IF detectados > cantidad THEN detectados ELSE cantidad

Reconcile ==
    /\ pc = "reconcile"
    /\ cantidad_entregables' =
          ReconcileCount(Len(entregables_detectados), cantidad_entregables)
    /\ pc' = "synth"
    /\ UNCHANGED <<pdf, numero_os, fecha_os, monto_total, entregables_detectados,
                   vistos, primera_pagina_detectada, pagina, prompts, rows,
                   pago_unitario>>

\* Lines 90-91: placeholders when nothing was detected.
Synthesize ==
    /\ pc = "synth"
    /\ entregables_detectados' =
          IF entregables_detectados = <<>>
          THEN Placeholders(cantidad_entregables) ELSE entregables_detectados
    /\ pc' = "manual_monto"
    /\ UNCHANGED <<pdf, numero_os, fecha_os, monto_total, cantidad_entregables,
                   vistos, primera_pagina_detectada, pagina, prompts, rows,
                   pago_unitario>>

\* Lines 94-95: the amount input, shown when the amount is 0.
ManualMonto ==
    /\ pc = "manual_monto"
    /\ IF monto_total = 0
       THEN /\ \E v \in MontoInputs : monto_total' = v
            /\ prompts' = prompts \cup {"monto"}
       ELSE UNCHANGED <<monto_total, prompts>>
    /\ pc' = "manual_cantidad"
    /\ UNCHANGED <<pdf, numero_os, fecha_os, cantidad_entregables,
                   entregables_detectados, vistos, primera_pagina_detectada,
                   pagina, rows, pago_unitario>>

\* Lines 96-97: the count input, shown when the count is 0.
ManualCantidad ==
    /\ pc = "manual_cantidad"
    /\ IF cantidad_entregables = 0
       THEN /\ \E v \in CantidadInputs : cantidad_entregables' = v
            /\ prompts' = prompts \cup {"cantidad"}
       ELSE UNCHANGED <<cantidad_entregables, prompts>>
    /\ pc' = "derive"
    /\ UNCHANGED <<pdf, numero_os, fecha_os, monto_total,
                   entregables_detectados, vistos, primera_pagina_detectada,
                   pagina, rows, pago_unitario>>

\* One row of the table (line 107-115) and the Total row (line 117).
Row(i, nombre, plazo, porcentaje_pago, pago) ==
    [os |-> numero_os,
     entregable |-> ToString(i) \o "°_" \o nombre \o "_ENTREGABLE",
     plazo |-> plazo,
     pct |-> FormatFloat(porcentaje_pago) \o "%",
     pago |-> pago,
     fecha_os |-> FormatDate(fecha_os),
     fecha_contractual |-> FormatDate(AddDays(fecha_os, plazo))]

\* Variant of TotalRow: the amount is the sum of the truncated shares.
TotalRow_Sum ==
    [os |-> numero_os, entregable |-> "Total", plazo |-> "", pct |-> "100%",
     pago |-> (monto_total \div cantidad_entregables) * cantidad_entregables,
     fecha_os |-> "", fecha_contractual |-> ""]

TotalRow ==
    [os |-> numero_os, entregable |-> "Total", plazo |-> "", pct |-> "100%",
     pago |-> monto_total, fecha_os |-> "", fecha_contractual |-> ""]

\* Lines 100-130: the unit payment, the percentage, one row per entry of
\* entregables_detectados and the Total row; the function returns.
\* date + timedelta raises OverflowError past the year 9999.
Derive ==
    /\ pc = "derive"
    /\ LET n == cantidad_entregables
           last == AddDays(fecha_os,
                           entregables_detectados[Len(entregables_detectados)][2])
       IN  IF last.y > 9999
           THEN pc' = "OverflowError" /\ UNCHANGED <<rows, pago_unitario>>
           ELSE \E pago \in (IF n > 0 THEN Round2(monto_total, n) ELSE {0}),
                   porcentaje_pago \in (IF n > 0 THEN Round2(10000, n) ELSE {0}) :
                  /\ pago_unitario' = pago
                  /\ rows' = [i \in 1..Len(entregables_detectados) |->
                                Row(i, entregables_detectados[i][1],
                                    entregables_detectados[i][2],
                                    porcentaje_pago, pago)]
                             \o <<TotalRow>>
                  /\ pc' = "done"
    /\ UNCHANGED <<pdf, numero_os, fecha_os, monto_total, cantidad_entregables,
                   entregables_detectados, vistos, primera_pagina_detectada,
                   pagina, prompts>>

Next ==
    \/ ExtractFields
    \/ ScanPage
    \/ Reconcile
    \/ Synthesize
    \/ ManualMonto
    \/ ManualCantidad
    \/ Derive

Spec == Init /\ [][Next]_vars

\* ================================================================ claims
Abs(x) == IF x < 0 THEN 0 - x ELSE x

\* The scan of the pages has ended.
Scanned ==
    pc \in {"reconcile", "synth", "manual_monto", "manual_cantidad", "derive",
            "done", "OverflowError"}

\* The pages that hold a declaration, and the first of them (0 for none).
DeclPages ==
    {i \in 1..Len(pdf) : \E j \in 1..Len(pdf[i]) : pdf[i][j].k = "decl"}

FirstDeclPage ==
    IF DeclPages = {} THEN 0 ELSE CHOOSE i \in DeclPages : \A j \in DeclPages : i <= j

\* The (normalized ordinal, deadline) pairs declared on page i.
DeclsOf(i) ==
    {Clave(pdf[i][j]) : j \in {j \in 1..Len(pdf[i]) : pdf[i][j].k = "decl"}}

\* No pattern matches anywhere in the document.
NoMatches ==
    \A i \in 1..Len(pdf) : \A j \in 1..Len(pdf[i]) : pdf[i][j].k \in {"texto", "None"}

\* The count declared in the document and the number of unique declarations.
Declared == CantidadEntregables(Texto(pdf))
Unique == Cardinality(vistos)

Ordinals ==
    {"PRIMER", "SEGUNDO", "TERCER", "CUARTO", "QUINTO", "SEXTO", "SEPTIMO",
     "OCTAVO", "NOVENO", "DECIMO"}

\* C1: the extraction phase never raises to its caller, whatever the
\* document, a DD/MM/YYYY match that is no calendar date included.
C1_ExtractionNeverRaises == pc # "ValueError"

\* C2: a document in which no pattern matches gives orderNumber
\* "No identificado", notificationDate 2025-01-10, totalAmount 0.0 and
\* exactly 5 synthesized deliverables with deadlines 30, 60, 90, 120, 150,
\* in that order.
C2_DefaultsOnNoMatch ==
    NoMatches =>
      /\ pc # "ValueError"
      /\ pc # "extract" =>
            /\ numero_os = "No identificado"
            /\ fecha_os = [d |-> 10, m |-> 1, y |-> 2025]
      /\ pc \in {"scan", "reconcile", "synth", "manual_monto"} => monto_total = 0
      /\ pc \in {"manual_monto", "manual_cantidad", "derive", "done"} =>
            entregables_detectados =
               << <<"ENTREGABLE_1", 30>>, <<"ENTREGABLE_2", 60>>,
                  <<"ENTREGABLE_3", 90>>, <<"ENTREGABLE_4", 120>>,
                  <<"ENTREGABLE_5", 150>> >>
      /\ pc = "done" =>
            /\ Len(rows) = 6
            /\ \A i \in 1..5 :
                  /\ rows[i].plazo = 30 * i
                  /\ rows[i].os = "No identificado"
                  /\ rows[i].fecha_os = "10/01/2025"
            /\ rows[1].fecha_contractual = "09/02/2025"
            /\ rows[2].fecha_contractual = "11/03/2025"
            /\ rows[5].fecha_contractual = "09/06/2025"

C2_Witness ==
    /\ pc = "done" /\ NoMatches
    /\ \E i \in 1..Len(pdf) : Truthy(pdf[i])
    /\ \E i \in 1..Len(pdf) : ~Truthy(pdf[i])
    /\ Len(rows) = 6

\* C3: the declarations come from exactly one page, the first page in
\* document order with a declaration match; the scan never goes past it and
\* no declaration of a later page enters the result.
C3_FirstMatchingPageOnly ==
    /\ FirstDeclPage # 0 => pagina <= FirstDeclPage
    /\ Scanned =>
          /\ primera_pagina_detectada = (FirstDeclPage # 0)
          /\ vistos = (IF FirstDeclPage = 0 THEN {} ELSE DeclsOf(FirstDeclPage))
          /\ FirstDeclPage # 0 =>
                /\ pagina = FirstDeclPage
                /\ {entregables_detectados[a] : a \in 1..Len(entregables_detectados)}
                      = DeclsOf(FirstDeclPage)
    /\ pc = "done" /\ FirstDeclPage # 0 =>
          Len(rows) - 1 = Cardinality(DeclsOf(FirstDeclPage))

C3_Witness ==
    /\ pc = "done"
    /\ FirstDeclPage = 2
    /\ \E i \in 3..Len(pdf) : DeclsOf(i) \ vistos # {}

\* C4: after the reconciliation step the count is the larger of the
\* declared count and the number of unique detected declarations, and it is
\* never below either of them afterwards.
C4_ReconciliationMax ==
    /\ pc = "synth" =>
          /\ cantidad_entregables \in {Declared, Unique}
          /\ cantidad_entregables >= Declared
          /\ cantidad_entregables >= Unique
    /\ pc \in {"manual_monto", "manual_cantidad", "derive", "done"} =>
          /\ cantidad_entregables >= Declared
          /\ cantidad_entregables >= Unique

C4_Witness ==
    /\ pc = "synth"
    /\ Declared = 1 /\ Unique = 2 /\ cantidad_entregables = 2

\* C5: the declaration list never holds the same (normalized ordinal,
\* deadline) pair twice; each distinct pair of the winning page is in it
\* once, in the order of first occurrence, with the ordinal in upper case
\* without accent; the same ordinal with two deadlines gives two entries.
C5_UniqueFirstSeen ==
    /\ \A a, b \in 1..Len(entregables_detectados) :
          a # b => entregables_detectados[a] # entregables_detectados[b]
    /\ Scanned /\ FirstDeclPage # 0 =>
          LET M == FindAll(pdf[FirstDeclPage])
              K == [j \in 1..Len(M) |-> Clave(M[j])]
              Firsts == {j \in 1..Len(M) : \A i \in 1..(j - 1) : K[i] # K[j]}
          IN  /\ Len(entregables_detectados) = Cardinality(Firsts)
              /\ \A a \in 1..Len(entregables_detectados) :
                    /\ entregables_detectados[a][1] \in Ordinals
                    /\ \E j \in Firsts :
                          /\ K[j] = entregables_detectados[a]
                          /\ Cardinality({i \in Firsts : i < j}) = a - 1

C5_Witness ==
    /\ pc = "done"
    /\ FirstDeclPage # 0
    /\ Len(FindAll(pdf[FirstDeclPage])) = 3
    /\ entregables_detectados = << <<"SEPTIMO", 30>>, <<"SEPTIMO", 60>> >>
    /\ pdf[FirstDeclPage][3].g1 = <<"s","é","p","t","i","m","o">>

\* C6: when no total amount is extracted, the schedule is never completed
\* with totalAmount = 0 standing in for the unresolved amount.
C6_NoZeroForUnresolvedAmount ==
    pc = "done" /\ MontoMatch(Texto(pdf)) = 0 => monto_total # 0

\* C7: for N >= 1 and total amount T every deliverable row carries the
\* same paymentAmount, T / N rounded to 2 decimals, and the same
\* paymentPercent, 100 / N rounded to 2 decimals followed by "%".
C7_EqualRoundedShares ==
    pc = "done" /\ cantidad_entregables >= 1 =>
       LET N == cantidad_entregables
           T == monto_total
       IN  /\ \A i \in 1..(Len(rows) - 1) :
                 /\ 2 * Abs(rows[i].pago * N - T) <= N
                 /\ rows[i].pago = rows[1].pago
                 /\ rows[i].pct = rows[1].pct
                 /\ \E h \in {10000 \div N, 10000 \div N + 1} :
                       /\ 2 * Abs(h * N - 10000) <= N
                       /\ rows[i].pct = FormatFloat(h) \o "%"
           /\ N = 3 /\ T = 100000 =>
                 rows[1].pago = 33333 /\ rows[1].pct = "33.33%"
           /\ N = 2 => rows[1].pct = "50.0%"
           /\ N = 3 /\ T = 1001 => rows[1].pago = 334

C7_Witness ==
    /\ pc = "done"
    /\ cantidad_entregables = 3 /\ monto_total = 100000
    /\ Len(rows) = 4
    /\ rows[2].pago = 33333 /\ rows[2].pct = "33.33%"

\* C8: the rows end with exactly one Total row, after all deliverable rows,
\* with "100%", empty deadline and dates, and the total amount itself as
\* its amount, on every path.
C8_TotalRowLast ==
    pc = "done" =>
       /\ Len(rows) >= 2
       /\ rows[Len(rows)].entregable = "Total"
       /\ rows[Len(rows)].pct = "100%"
       /\ rows[Len(rows)].plazo = ""
       /\ rows[Len(rows)].fecha_os = ""
       /\ rows[Len(rows)].fecha_contractual = ""
       /\ rows[Len(rows)].pago = monto_total
       /\ rows[Len(rows)].os = numero_os
       /\ \A i \in 1..(Len(rows) - 1) : rows[i].entregable # "Total"

C8_Witness ==
    /\ pc = "done"
    /\ Len(rows) = 4 /\ cantidad_entregables = 3
    /\ rows[4].pago = 100000
    /\ rows[1].pago + rows[2].pago + rows[3].pago = 99999

\* C9: derivation is never reached with a count of 0: a count still 0 after
\* reconciliation is replaced by a manual value >= 1, and the count input
\* is shown only when the count is 0.
C9_CountResolvedBeforeDerivation ==
    /\ [](pc \in {"derive", "done"} => cantidad_entregables >= 1)
    /\ [][pc = "manual_cantidad" /\ cantidad_entregables = 0
             => "cantidad" \in prompts' /\ cantidad_entregables' >= 1]_vars
    /\ [][("cantidad" \in prompts' /\ "cantidad" \notin prompts)
             => pc = "manual_cantidad" /\ cantidad_entregables = 0]_vars
    /\ [][cantidad_entregables > 0 /\ pc \in {"manual_cantidad", "derive"}
             => cantidad_entregables' = cantidad_entregables]_vars

C9_Witness ==
    /\ pc = "done"
    /\ "cantidad" \in prompts
    /\ Declared = 0 /\ Unique = 0
    /\ cantidad_entregables >= 1

\* C10: the number of deliverable rows equals the final deliverable count
\* returned to the caller and used as the divisor of the shares.
C10_RowsEqualCount ==
    pc = "done" => Len(rows) - 1 = cantidad_entregables

====
